---- MODULE Spec2Model ----
(***************************************************************************)
(* Model of the rust-challenges repository.                                *)
(*                                                                         *)
(* zk_ni_proof/src/main.rs: a Schnorr proof of knowledge of a discrete     *)
(* logarithm, made non-interactive with Fiat-Shamir (DLogProof).            *)
(*                                                                         *)
(* The k256 group (secp256k1, prime order, cofactor 1) is modelled by the  *)
(* cyclic group of prime order Order: a point is its discrete logarithm to *)
(* the curve generator, so IDENTITY is 0 and GENERATOR is 1.  Sha256 is    *)
(* modelled by a small iterated digest over the same byte transcript that   *)
(* the code feeds to the hasher.                                           *)
(***************************************************************************)
EXTENDS Integers, Sequences, FiniteSets, TLC

VARIABLES
    sid,         \* the session id bound by main and the tests (line 82)
    pid,         \* the party id (line 83)
    x,           \* the secret scalar (line 86)
    y,           \* the public point (line 91)
    base_point,  \* the base point G (line 90)
    calls,       \* per calling thread: the nonce drawn and the proof returned
    verdict,     \* the verify call that ends the run: arguments and result
    hashlog,     \* the hash_points calls: arguments, bytes hashed, result
    state,       \* sync-server: the shared map, id -> the party whose sender it holds
    parties,     \* sync-server: each call of wait_for_second_party_handler
    ws           \* wasm_sock: the WebSocket and the promise of one ws_ping call

vars == <<sid, pid, x, y, base_point, calls, verdict, hashlog, state, parties, ws>>
\* the state of the proof engine, of the rendezvous server and of ws_ping:
\* three programs that share nothing
zkvars == <<sid, pid, x, y, base_point, calls, verdict, hashlog>>
syncvars == <<state, parties>>

(***************************************************************************)
(* Bounds of the model and scaled program constants.                       *)
(***************************************************************************)
\* longest session id, in bytes
MaxSidLen == 1
\* number of hash_points calls recorded by the hash specification
MaxHashCalls == 2
\* the order of the group of k256 points (a prime), scaled down
Order == 5
\* number of values of a byte
ByteValues == 256
\* width of u64::to_le_bytes
PidWidth == 8
\* number of values of the digest (two bytes), scaled down from 2^256
DigestValues == 65536

Scalars == 0 .. (Order - 1)
Points == 0 .. (Order - 1)
IDENTITY == 0
GENERATOR == 1

\* bytes a session id is made of; 0 and 1 are also bytes of a party id
SidBytes == {1}
Sids == UNION {[1 .. n -> SidBytes] : n \in 0 .. MaxSidLen}
Pids == {0, 1, 256}
\* the threads that call prove, each with its own thread_rng
Provers == {"p1", "p2"}

(***************************************************************************)
(* Group arithmetic (k256).                                                *)
(***************************************************************************)
\* ProjectivePoint * Scalar
point_mul(p, k) == (p * k) % Order
\* ProjectivePoint + ProjectivePoint
point_add(p, q) == (p + q) % Order
\* Scalar + Scalar
scalar_add(a, b) == (a + b) % Order
\* Scalar * Scalar
scalar_mul(a, b) == (a * b) % Order
\* Scalar::reduce
reduce(n) == n % Order

\* ProjectivePoint::to_bytes: the compressed encoding, of fixed width: a tag
\* (0 for the identity, else 2 or 3 for the sign of the point) and the
\* x coordinate, which a point shares with its negation.
\* to_bytes keeping the x coordinate only, without the sign tag
to_bytes_x_only(p) ==
    IF p = IDENTITY THEN <<0, 0>>
    ELSE IF 2 * p < Order THEN <<2, p>>
    ELSE <<2, Order - p>>

to_bytes(p) ==
    IF p = IDENTITY THEN <<0, 0>>
    ELSE IF 2 * p < Order THEN <<2, p>>
    ELSE <<3, Order - p>>

(***************************************************************************)
(* hash_points                                                             *)
(***************************************************************************)
\* str::as_bytes
as_bytes(s) == s

RECURSIVE le_bytes(_, _)
le_bytes(n, w) ==
    IF w = 0 THEN <<>> ELSE <<n % ByteValues>> \o le_bytes(n \div ByteValues, w - 1)

RECURSIVE le_digits(_)
le_digits(n) ==
    IF n = 0 THEN <<>> ELSE <<n % ByteValues>> \o le_digits(n \div ByteValues)

\* the party id written in as few bytes as it needs, not in a fixed width
to_le_bytes_unpadded(p) == le_digits(p)

\* u64::to_le_bytes
to_le_bytes(p) == le_bytes(p, PidWidth)

RECURSIVE points_bytes(_)
points_bytes(points) ==
    IF points = <<>> THEN <<>>
    ELSE to_bytes(Head(points)) \o points_bytes(Tail(points))

\* the bytes hash_points feeds to the hasher, in the order of its updates
transcript(s, p, points) ==
    as_bytes(s) \o to_le_bytes(p) \o points_bytes(points)

RECURSIVE absorb(_, _)
absorb(h, bytes) ==
    IF bytes = <<>> THEN h
    ELSE absorb((h * 31 + Head(bytes) + 1) % DigestValues, Tail(bytes))

\* Sha256::new, update..., finalize: the digest, as bytes
Sha256(bytes) ==
    LET h == absorb(27145, bytes)
    IN  <<h \div ByteValues, h % ByteValues>>

RECURSIVE be_value(_, _)
be_value(acc, bytes) ==
    IF bytes = <<>> THEN acc
    ELSE be_value(acc * ByteValues + Head(bytes), Tail(bytes))

\* U256::from_be_slice
from_be_slice(bytes) == be_value(0, bytes)

hash_points(s, p, points) ==
    LET hash == Sha256(transcript(s, p, points))
    IN  reduce(from_be_slice(hash))

(***************************************************************************)
(* DLogProof::prove and DLogProof::verify                                  *)
(***************************************************************************)
\* prove with the challenge computed from the points in the order y, G, T
prove_swapped_points(s, p, xx, yy, bp, r) ==
    LET t == point_mul(bp, r)
        c == hash_points(s, p, <<yy, bp, t>>)
        ss == scalar_add(r, scalar_mul(c, xx))
    IN  [t |-> t, s |-> ss]

\* prove with the response computed as (r + c) * x
prove_misplaced_secret(s, p, xx, yy, bp, r) ==
    LET t == point_mul(bp, r)
        c == hash_points(s, p, <<bp, yy, t>>)
        ss == scalar_mul(scalar_add(r, c), xx)
    IN  [t |-> t, s |-> ss]

\* prove with the nonce left out of the response: s = c * x
prove_without_nonce(s, p, xx, yy, bp, r) ==
    LET t == point_mul(bp, r)
        c == hash_points(s, p, <<bp, yy, t>>)
        ss == scalar_mul(c, xx)
    IN  [t |-> t, s |-> ss]

\* r is the scalar that Scalar::generate_vartime(&mut thread_rng()) returns
prove(s, p, xx, yy, bp, r) ==
    LET t == point_mul(bp, r)
        c == hash_points(s, p, <<bp, yy, t>>)
        ss == scalar_add(r, scalar_mul(c, xx))
    IN  [t |-> t, s |-> ss]

\* verify with the challenge recomputed from the points in another order
verify_swapped_points(proof, s, p, yy, bp) ==
    LET c == hash_points(s, p, <<yy, bp, proof.t>>)
        lhs == point_mul(bp, proof.s)
        rhs == point_add(proof.t, point_mul(yy, c))
    IN  lhs = rhs

\* verify with the challenge recomputed for a fixed party, not the caller's
verify_fixed_party(proof, s, p, yy, bp) ==
    LET c == hash_points(s, 0, <<bp, yy, proof.t>>)
        lhs == point_mul(bp, proof.s)
        rhs == point_add(proof.t, point_mul(yy, c))
    IN  lhs = rhs

\* verify with the response multiplied into the public point, not the base
verify_wrong_base(proof, s, p, yy, bp) ==
    LET c == hash_points(s, p, <<bp, yy, proof.t>>)
        lhs == point_mul(yy, proof.s)
        rhs == point_add(proof.t, point_mul(yy, c))
    IN  lhs = rhs

verify(proof, s, p, yy, bp) ==
    LET c == hash_points(s, p, <<bp, yy, proof.t>>)
        lhs == point_mul(bp, proof.s)
        rhs == point_add(proof.t, point_mul(yy, c))
    IN  lhs = rhs

(***************************************************************************)
(* sync-server/src/main.rs: wait_for_second_party_handler.                 *)
(*                                                                         *)
(* A party is one call of the handler.  Its steps are the stretches of the *)
(* handler between two awaits; the stretches that touch the shared map run *)
(* under its write lock, so each is one atomic step.  The 10 second timer  *)
(* of a waiting party may fire at any moment at which its receiver has     *)
(* neither a value nor a dropped sender (tokio's timeout polls the         *)
(* receiver before the timer).                                             *)
(***************************************************************************)
\* number of calls of the handler
NumParties == 3
Parties == 1 .. NumParties
\* no party: the value of a map slot without entry, and of a ghost field
Nobody == 0
\* the ids the callers pass
Ids == {"A", "B"}

\* A call before it starts.  id: the id passed; pc: where the call is;
\* chan: its oneshot channel ("open": the sender is alive and nothing was
\* sent, "sent", "closed": the sender was dropped unsent, "dropped": the
\* receiver is gone); result: the reply.  Ghost fields: inserted (it stored
\* its sender in the map), partner (the party whose sender it took out of
\* the map and signalled on arrival), removed (the party whose sender its
\* timeout cleanup took out of the map).
NotStarted ==
    [id |-> "none", pc |-> "idle", chan |-> "none", result |-> "none",
     inserted |-> FALSE, partner |-> Nobody, removed |-> Nobody]
EmptyMap == [i \in Ids |-> Nobody]

\* oneshot::Sender::send(()) on the channel of a party
send(ch) == IF ch = "open" THEN "sent" ELSE ch
\* dropping the oneshot::Sender of a party without sending
drop_sender(ch) == IF ch = "open" THEN "closed" ELSE ch

\* lines 17-32 with the entry left in the map when the second party comes
arrive_keeps_entry(st, ps, c, id) ==
    IF st[id] # Nobody
    THEN [state |-> st,
          parties |-> [ps EXCEPT
             ![st[id]].chan = send(@),
             ![c] = [@ EXCEPT !.id = id, !.pc = "done", !.chan = "dropped",
                              !.result = "ok", !.partner = st[id]]]]
    ELSE [state |-> [st EXCEPT ![id] = c],
          parties |-> [ps EXCEPT
             ![c] = [@ EXCEPT !.id = id, !.pc = "waiting", !.chan = "open",
                              !.inserted = TRUE]]]

\* lines 17-32 with the sender stored whether or not an entry exists
\* (HashMap::insert drops the entry it replaces)
arrive_always_inserts(st, ps, c, id) ==
    [state |-> [st EXCEPT ![id] = c],
     parties |-> [q \in Parties |->
        IF q = c
        THEN [ps[q] EXCEPT !.id = id, !.pc = "waiting", !.chan = "open",
                           !.inserted = TRUE]
        ELSE IF q = st[id]
             THEN [ps[q] EXCEPT !.chan = drop_sender(@)]
             ELSE ps[q]]]

\* lines 17-32: the channel is made; under the write lock, an entry found
\* under the id is removed and signalled (the result of send is ignored)
\* and the call returns the success reply; otherwise the sender is stored.
arrive(st, ps, c, id) ==
    IF st[id] # Nobody
    THEN [state |-> [st EXCEPT ![id] = Nobody],
          parties |-> [ps EXCEPT
             ![st[id]].chan = send(@),
             ![c] = [@ EXCEPT !.id = id, !.pc = "done", !.chan = "dropped",
                              !.result = "ok", !.partner = st[id]]]]
    ELSE [state |-> [st EXCEPT ![id] = c],
          parties |-> [ps EXCEPT
             ![c] = [@ EXCEPT !.id = id, !.pc = "waiting", !.chan = "open",
                              !.inserted = TRUE]]]

\* lines 37-42 without the removal
cleanup_no_remove(st, ps, c) ==
    [state |-> st,
     parties |-> [ps EXCEPT
        ![c] = [@ EXCEPT !.pc = "done", !.result = "timeout"]]]

\* lines 37-42 with the whole map cleared
cleanup_clears_map(st, ps, c) ==
    [state |-> EmptyMap,
     parties |-> [q \in Parties |->
        IF q = c
        THEN [ps[q] EXCEPT !.pc = "done", !.result = "timeout",
                           !.removed = st[ps[c].id]]
        ELSE IF \E i \in Ids : st[i] = q
             THEN [ps[q] EXCEPT !.chan = drop_sender(@)]
             ELSE ps[q]]]

\* lines 37-42: under the write lock, whatever entry is under the id is
\* removed (its sender is dropped) and the call returns TimeoutError.
cleanup(st, ps, c) ==
    LET e == st[ps[c].id]
    IN  [state |-> [st EXCEPT ![ps[c].id] = Nobody],
         parties |-> [q \in Parties |->
            IF q = c
            THEN [ps[q] EXCEPT !.pc = "done", !.result = "timeout",
                               !.removed = e]
            ELSE IF q = e
                 THEN [ps[q] EXCEPT !.chan = drop_sender(@)]
                 ELSE ps[q]]]

(***************************************************************************)
(* wasm-server/wasm_sock/src/lib.rs: ws_ping.                              *)
(*                                                                         *)
(* The browser is modelled by its WebSocket events: open fires at most     *)
(* once, message and error events follow, and the resolve and reject       *)
(* functions of a promise settle it only the first time one is called.     *)
(***************************************************************************)
\* most message events the endpoint delivers in a run
MaxFrames == 3
\* the messages a caller passes to ws_ping
WsMessages == {"ping", "hello"}
\* the message events of the endpoint: text frames and a binary frame
Frames ==
    {[text |-> TRUE, data |-> "pong"], [text |-> TRUE, data |-> "ping"],
     [text |-> FALSE, data |-> "blob"]}
\* the messages of the error events
WsErrors == {"refused", "reset"}

\* ws_ping not called yet.  socket: the state of the WebSocket; message:
\* the message passed; wire: the frames sent by send_with_str; promise and
\* value: the promise returned; opened and received: the events so far.
WsNotCalled ==
    [socket |-> "none", message |-> "", wire |-> <<>>, promise |-> "none",
     value |-> "", opened |-> FALSE, received |-> <<>>]

\* resolve.call1(&JsValue::NULL, &v)
resolve(w, v) ==
    IF w.promise = "pending"
    THEN [w EXCEPT !.promise = "fulfilled", !.value = v] ELSE w
\* reject.call1(&JsValue::NULL, &v)
reject(w, v) ==
    IF w.promise = "pending"
    THEN [w EXCEPT !.promise = "rejected", !.value = v] ELSE w

\* onmessage_callback resolving with the data of any message, text or not
on_message_any(w, m) == resolve(w, m.data)

\* onmessage_callback (lines 50-60)
on_message(w, m) ==
    IF m.text THEN resolve(w, m.data)
    ELSE reject(w, "Rust: Received non-text message")

\* onerror_callback (lines 68-72)
on_error(w, msg) == reject(w, msg)

\* WebSocket::send_with_str: fails while the socket is connecting, else the
\* message is queued for sending
send_with_str(w) ==
    IF w.socket = "connecting" THEN [ok |-> FALSE, ws |-> w]
    ELSE [ok |-> TRUE, ws |-> [w EXCEPT !.wire = Append(@, w.message)]]

\* the promise executor sending at once, without waiting for the open event
executor_sends_at_once(w, created, message) ==
    IF ~created
    THEN [w EXCEPT !.message = message, !.promise = "rejected",
                   !.value = "Rust: Failed to create WebSocket"]
    ELSE [w EXCEPT !.socket = "connecting", !.message = message,
                   !.promise = "pending", !.wire = <<message>>]

\* the promise executor (lines 31-92): the WebSocket is created, or the
\* promise is rejected; the three callbacks are registered.
executor(w, created, message) ==
    IF ~created
    THEN [w EXCEPT !.message = message, !.promise = "rejected",
                   !.value = "Rust: Failed to create WebSocket"]
    ELSE [w EXCEPT !.socket = "connecting", !.message = message,
                   !.promise = "pending"]

\* onopen_callback sending the message twice
on_open_sends_twice(w) ==
    LET sent == send_with_str(w)
    IN  IF sent.ok THEN send_with_str(sent.ws).ws
        ELSE reject(w, "Rust: Failed to send message")

\* onopen_callback (lines 80-89)
on_open(w) ==
    LET sent == send_with_str(w)
    IN  IF sent.ok THEN sent.ws
        ELSE reject(w, "Rust: Failed to send message")

(***************************************************************************)
(* The state: the inputs of a run (as the tests and main bind them), the   *)
(* prove call of each thread, and the verify call that ends the run, as in *)
(* each test and in main: bind the inputs, prove, then verify.             *)
(***************************************************************************)
NoCall == [done |-> FALSE, r |-> 0, proof |-> [t |-> 0, s |-> 0]]
NoVerdict ==
    [called |-> FALSE, of |-> "p1", proof |-> [t |-> 0, s |-> 0],
     sid |-> <<>>, pid |-> 0, result |-> FALSE]

Init ==
    /\ sid \in Sids
    /\ pid \in Pids
    /\ x \in Scalars
    /\ y \in Points
    /\ base_point \in Points
    /\ calls = [p \in Provers |-> NoCall]
    /\ verdict = NoVerdict
    /\ hashlog = <<>>
    /\ state = EmptyMap
    /\ parties = [c \in Parties |-> NotStarted]
    /\ ws = WsNotCalled

\* thread p calls DLogProof::prove(sid, pid, x, y, base_point)
Prove(p) ==
    /\ ~verdict.called
    /\ ~calls[p].done
    /\ \E r \in Scalars :
         calls' = [calls EXCEPT ![p] =
                     [done |-> TRUE, r |-> r,
                      proof |-> prove(sid, pid, x, y, base_point, r)]]
    /\ UNCHANGED <<sid, pid, x, y, base_point, verdict, hashlog, state, parties, ws>>

\* proof.verify(vsid, vpid, y, base_point) on the proof thread p returned
Verify(p, vsid, vpid) ==
    /\ ~verdict.called
    /\ calls[p].done
    /\ verdict' = [called |-> TRUE, of |-> p, proof |-> calls[p].proof,
                   sid |-> vsid, pid |-> vpid,
                   result |-> verify(calls[p].proof, vsid, vpid, y, base_point)]
    /\ UNCHANGED <<sid, pid, x, y, base_point, calls, hashlog, state, parties, ws>>

\* verify on the proof thread p returned, its response replaced by another
VerifyTampered(p) ==
    /\ ~verdict.called
    /\ calls[p].done
    /\ \E s2 \in Scalars \ {calls[p].proof.s} :
         LET forged == [t |-> calls[p].proof.t, s |-> s2]
         IN  verdict' = [called |-> TRUE, of |-> p, proof |-> forged,
                         sid |-> sid, pid |-> pid,
                         result |-> verify(forged, sid, pid, y, base_point)]
    /\ UNCHANGED <<sid, pid, x, y, base_point, calls, hashlog, state, parties, ws>>

\* One prover: prove, then verify under any session id and party id, or
\* verify with the response replaced.
Next ==
    \/ Prove("p1")
    \/ \E vsid \in Sids, vpid \in Pids : Verify("p1", vsid, vpid)
    \/ VerifyTampered("p1")

Spec == Init /\ [][Next]_vars

\* Two threads that call prove on the same inputs, in any order, and verify
\* on either proof under those inputs.
NextPair ==
    \/ \E p \in Provers : Prove(p)
    \/ \E p \in Provers : Verify(p, sid, pid)

SpecPair == Init /\ [][NextPair]_vars

(***************************************************************************)
(* Properties of prove and verify.                                         *)
(***************************************************************************)
\* the caller's precondition of prove: y = x * G
Honest == y = point_mul(base_point, x)
\* the run ended with verify on a proof exactly as prove returned it
VerifiedAsProved == verdict.called /\ verdict.proof = calls[verdict.of].proof
\* the run ended with verify on a proof whose response was replaced
VerifiedTampered ==
    /\ verdict.called
    /\ verdict.proof.t = calls[verdict.of].proof.t
    /\ verdict.proof.s # calls[verdict.of].proof.s
SameContext == verdict.sid = sid /\ verdict.pid = pid
\* exactly one of the session id and the party id differs at verify
OneOfContextChanged ==
    \/ verdict.sid # sid /\ verdict.pid = pid
    \/ verdict.sid = sid /\ verdict.pid # pid
\* the challenge prove used, and the one verify recomputed
ChallengeProved == hash_points(sid, pid, <<base_point, y, verdict.proof.t>>)
ChallengeVerified ==
    hash_points(verdict.sid, verdict.pid, <<base_point, y, verdict.proof.t>>)

\* C1 (completeness): whenever y = x * G, whatever the secret x (0 and
\* Order - 1 included), the base point, the session id, the party id and
\* the nonce drawn, verify on the proof prove returned, under the same
\* session id, party id, y and base point, returns true.
C1_Completeness ==
    (VerifiedAsProved /\ SameContext /\ Honest) => verdict.result = TRUE

\* C1 witness: a proof for the largest secret, Order - 1, on the generator,
\* was verified under its own context.
C1_Witness ==
    /\ VerifiedAsProved /\ SameContext /\ Honest
    /\ x = Order - 1 /\ base_point = GENERATOR
    /\ calls[verdict.of].r # 0
    /\ verdict.result = TRUE

\* C2 as stated: an honest proof verified under another session id, or under
\* another party id, is always rejected.
C2_DomainBindingAlways ==
    (VerifiedAsProved /\ Honest /\ OneOfContextChanged) => verdict.result = FALSE

\* C2 (amended): an honest proof verified under another session id, or under
\* another party id, is rejected exactly when y is not the identity and the
\* challenge recomputed under the other context differs from the one prove
\* used; for x = 0 (y the identity) it is accepted under every context.
C2_DomainBinding ==
    (VerifiedAsProved /\ Honest /\ OneOfContextChanged) =>
        (verdict.result = FALSE <=>
            (y # IDENTITY /\ ChallengeVerified # ChallengeProved))

\* C2 witness: an honest proof for a secret other than 0 was rejected under
\* another session id.
C2_Witness ==
    /\ VerifiedAsProved /\ Honest
    /\ verdict.sid # sid /\ verdict.pid = pid
    /\ x # 0 /\ base_point = GENERATOR
    /\ verdict.result = FALSE

\* C3: verify returns a boolean, true exactly when S * G = T + c * Y as group
\* elements, c being the challenge of (session id, party id, [G, Y, T]), the
\* point order of prove, whose response is r + c * x for that challenge.
C3_VerifyEquation ==
    /\ verdict.called =>
          /\ verdict.result \in BOOLEAN
          /\ verdict.result <=>
                (point_mul(base_point, verdict.proof.s)
                   = point_add(verdict.proof.t, point_mul(y, ChallengeVerified)))
    /\ \A p \in Provers :
          calls[p].done =>
            calls[p].proof.s =
              scalar_add(calls[p].r,
                scalar_mul(hash_points(sid, pid, <<base_point, y, calls[p].proof.t>>), x))

\* C3 witness: verify was called under another party id on a proof for a
\* secret other than 0 and accepted it, the two challenges being equal.
C3_Witness ==
    /\ VerifiedAsProved /\ Honest
    /\ verdict.sid = sid /\ verdict.pid # pid
    /\ base_point # IDENTITY /\ y # IDENTITY
    /\ verdict.result = TRUE

C5_IdentityCommitmentRejected ==
    (verdict.called /\ verdict.proof.t = IDENTITY) => verdict.result = FALSE

\* C6: with the generator as base point and y = x * G, replacing the
\* response S of a proof by any other scalar, the rest unchanged, makes
\* verify return false.
C6_TamperedResponseRejected ==
    (VerifiedTampered /\ SameContext /\ Honest /\ base_point = GENERATOR) =>
        verdict.result = FALSE

\* C6 witness: the response of an honest proof on the generator was replaced
\* and verify was called on the result.
C6_Witness ==
    /\ VerifiedTampered /\ SameContext /\ Honest
    /\ base_point = GENERATOR /\ x # 0
    /\ verdict.result = FALSE

\* C10: two prove calls on the same inputs, with y = x * G, that draw
\* different nonces return different (T, S) pairs, and verify accepts both
\* under those inputs.
C10_DistinctNoncesDistinctProofs ==
    /\ (Honest /\ calls["p1"].done /\ calls["p2"].done
            /\ calls["p1"].r # calls["p2"].r) =>
          /\ calls["p1"].proof # calls["p2"].proof
          /\ verify(calls["p1"].proof, sid, pid, y, base_point)
          /\ verify(calls["p2"].proof, sid, pid, y, base_point)
    /\ (Honest /\ VerifiedAsProved /\ SameContext) => verdict.result = TRUE

\* C10 witness: both threads proved with different nonces and verify was
\* called on the second proof.
C10_Witness ==
    /\ Honest /\ calls["p1"].done /\ calls["p2"].done
    /\ calls["p1"].r # calls["p2"].r
    /\ x # 0 /\ base_point = GENERATOR
    /\ verdict.called /\ verdict.of = "p2" /\ verdict.result = TRUE

(***************************************************************************)
(* hash_points as a pure function: the inputs are drawn as prove binds     *)
(* them (session id, party id, base point, public point), and hashlog      *)
(* records every call: its arguments, the bytes fed to the hasher and the  *)
(* scalar returned.                                                        *)
(***************************************************************************)
HashCall(s, p, points) ==
    [sid |-> s, pid |-> p, points |-> points,
     bytes |-> transcript(s, p, points), out |-> hash_points(s, p, points)]

\* the orders a list of three points can be passed in
Orders == {f \in [1 .. 3 -> 1 .. 3] : \A i, j \in 1 .. 3 : f[i] = f[j] => i = j}
Reordered(points, f) == [i \in 1 .. 3 |-> points[f[i]]]

InitHash ==
    /\ sid \in Sids
    /\ pid \in Pids
    /\ x = 0
    /\ y \in Points
    /\ base_point \in Points
    /\ calls = [p \in Provers |-> NoCall]
    /\ verdict = NoVerdict
    /\ hashlog = <<>>
    /\ state = EmptyMap
    /\ parties = [c \in Parties |-> NotStarted]
    /\ ws = WsNotCalled

\* hash_points(sid, pid, &[base_point, y, t]), as prove and verify call it
HashPoints ==
    /\ Len(hashlog) < MaxHashCalls
    /\ \E t \in Points :
         hashlog' = Append(hashlog, HashCall(sid, pid, <<base_point, y, t>>))
    /\ UNCHANGED <<sid, pid, x, y, base_point, calls, verdict, state, parties, ws>>

\* hash_points on the points of the first call, passed in another order
HashReordered ==
    /\ hashlog # <<>>
    /\ Len(hashlog) < MaxHashCalls
    /\ \E f \in Orders :
         hashlog' = Append(hashlog,
                           HashCall(sid, pid, Reordered(hashlog[1].points, f)))
    /\ UNCHANGED <<sid, pid, x, y, base_point, calls, verdict, state, parties, ws>>

\* hash_points on the points of the first call, under another session id
\* and party id
HashOtherContext ==
    /\ hashlog # <<>>
    /\ Len(hashlog) < MaxHashCalls
    /\ \E s \in Sids, p \in Pids :
         hashlog' = Append(hashlog, HashCall(s, p, hashlog[1].points))
    /\ UNCHANGED <<sid, pid, x, y, base_point, calls, verdict, state, parties, ws>>

NextHash ==
    \/ HashPoints
    \/ HashReordered
    \/ HashOtherContext

SpecHash == InitHash /\ [][NextHash]_vars

(***************************************************************************)
(* Properties of hash_points.                                              *)
(***************************************************************************)
Logged == DOMAIN hashlog
\* the calls made after call i
Later(i) == {j \in Logged : j > i}
SameContextCalls(i, j) ==
    hashlog[i].sid = hashlog[j].sid /\ hashlog[i].pid = hashlog[j].pid
\* call j passed the points of call i in another order, and the list differs
ReorderedCalls(i, j) ==
    /\ hashlog[j].points # hashlog[i].points
    /\ \E f \in Orders : hashlog[j].points = Reordered(hashlog[i].points, f)

C8_TranscriptInjective ==
    \A i \in Logged : \A j \in Later(i) :
        (hashlog[i].points = hashlog[j].points /\ ~SameContextCalls(i, j)) =>
            hashlog[i].bytes # hashlog[j].bytes

\* C8 witness: the session id of one call ends with the byte that the party
\* id of the other call starts with, and the bytes fed still differ.
C8_Witness ==
    \E i, j \in Logged :
        /\ hashlog[i].points = hashlog[j].points
        /\ hashlog[i].sid = <<1>> /\ hashlog[i].pid = 0
        /\ hashlog[j].sid = <<>> /\ hashlog[j].pid = 1
        /\ hashlog[i].bytes # hashlog[j].bytes

(***************************************************************************)
(* The rendezvous server: the calls of wait_for_second_party_handler on    *)
(* one shared map, as warp runs them, in any interleaving.                 *)
(***************************************************************************)
InitSync ==
    /\ sid = <<>> /\ pid = 0 /\ x = 0 /\ y = IDENTITY /\ base_point = GENERATOR
    /\ calls = [p \in Provers |-> NoCall]
    /\ verdict = NoVerdict
    /\ hashlog = <<>>
    /\ state = EmptyMap
    /\ parties = [c \in Parties |-> NotStarted]
    /\ ws = WsNotCalled

\* party c calls the handler under id and runs it up to its first wait
Arrive(c, id) ==
    /\ parties[c].pc = "idle"
    /\ LET after == arrive(state, parties, c, id)
       IN  state' = after.state /\ parties' = after.parties
    /\ UNCHANGED <<zkvars, ws>>

\* line 36: the receiver of c completed, with the value sent or with the
\* error of a dropped sender; both match Ok(_) and c returns the success reply
Received(c) ==
    /\ parties[c].pc = "waiting"
    /\ parties[c].chan \in {"sent", "closed"}
    /\ parties' = [parties EXCEPT ![c].pc = "done", ![c].result = "ok"]
    /\ UNCHANGED <<zkvars, state, ws>>

\* line 35: the 10 seconds of c elapsed with nothing received; the timeout
\* future and the receiver in it are dropped, and c goes on to line 39
Elapsed(c) ==
    /\ parties[c].pc = "waiting"
    /\ parties[c].chan = "open"
    /\ parties' = [parties EXCEPT ![c].pc = "timedout", ![c].chan = "dropped"]
    /\ UNCHANGED <<zkvars, state, ws>>

\* lines 39-41: c takes the write lock, removes the entry of its id and
\* returns TimeoutError
Cleanup(c) ==
    /\ parties[c].pc = "timedout"
    /\ LET after == cleanup(state, parties, c)
       IN  state' = after.state /\ parties' = after.parties
    /\ UNCHANGED <<zkvars, ws>>

NextSync ==
    \/ \E c \in Parties, id \in Ids : Arrive(c, id)
    \/ \E c \in Parties : Received(c)
    \/ \E c \in Parties : Elapsed(c)
    \/ \E c \in Parties : Cleanup(c)

SpecSync == InitSync /\ [][NextSync]_vars

\* The tokio runtime polls every woken task, its timer fires every elapsed
\* timeout and its RwLock is granted in the order of the requests: no step
\* of a started call stays enabled for ever without being taken.
SpecSyncFair ==
    /\ SpecSync
    /\ \A c \in Parties :
          WF_vars(Received(c)) /\ WF_vars(Elapsed(c)) /\ WF_vars(Cleanup(c))

(***************************************************************************)
(* Properties of the rendezvous server.                                    *)
(***************************************************************************)
\* a is in its wait and its 10 seconds have not elapsed
WaitsInTime(a) == parties[a].pc = "waiting" /\ parties[a].chan = "open"
\* this step is the arrival of b under the id of a
ArrivesUnderIdOf(b, a) ==
    /\ a # b
    /\ parties[b].pc = "idle" /\ parties'[b].pc # "idle"
    /\ parties'[b].id = parties[a].id
\* the sender of a was signalled while the receiver of a was alive
SignalledInTime(a) == parties[a].chan = "sent"
Returned(c) == parties[c].pc = "done"
ReturnedOk(c) == Returned(c) /\ parties[c].result = "ok"
ReturnedTimeout(c) == Returned(c) /\ parties[c].result = "timeout"

\* C11: when b arrives under the id under which a waits, before the wait of
\* a has elapsed, b returns the success reply in that step, without having
\* stored a sender or waited, and a is signalled; a signalled party does not
\* time out: it is waiting with its receiver ready, or it has returned the
\* success reply.
C11_RendezvousPairing ==
    [][\A a, b \in Parties :
         /\ (WaitsInTime(a) /\ ArrivesUnderIdOf(b, a)) =>
               /\ parties'[b].pc = "done" /\ parties'[b].result = "ok"
               /\ ~parties'[b].inserted
               /\ parties'[a].chan = "sent"
         /\ SignalledInTime(a)' =>
               /\ parties'[a].pc \in {"waiting", "done"}
               /\ parties'[a].pc = "done" => parties'[a].result = "ok"]_vars

\* a waited, b arrived in time, and both have returned the success reply
C11_Witness ==
    \E a, b \in Parties :
        /\ a # b /\ parties[a].id = parties[b].id
        /\ parties[a].inserted /\ SignalledInTime(a) /\ ReturnedOk(a)
        /\ parties[b].partner = a /\ ~parties[b].inserted /\ ReturnedOk(b)

\* some arriving party found the sender of c in the map and signalled it
TakenBySecond(c) == \E b \in Parties : parties[b].partner = c
\* every started call returns
EveryCallReturns ==
    \A c \in Parties : (parties[c].pc # "idle") ~> Returned(c)

\* C12: a caller that stored its sender and waited, and whose sender no
\* second caller found, never returns the success reply: when it returns,
\* it returns TimeoutError.
C12_BoundedWait ==
    \A c \in Parties :
        (parties[c].inserted /\ ~TakenBySecond(c) /\ Returned(c)) =>
            parties[c].result = "timeout"

\* the parties that called under the id of a
CallersOfIdOf(a) == {q \in Parties : parties[q].id = parties[a].id}
\* b found the sender of a while a was waiting: a and b are paired
Paired(a, b) == parties[b].partner = a /\ SignalledInTime(a)
\* c is in the handler and has a step to take
CanGoOn(c) == ENABLED (Received(c) \/ Elapsed(c) \/ Cleanup(c))

Counterparts(c) ==
    {q \in Parties \ {c} : parties[c].partner = q \/ parties[q].partner = c}

\* C17: a caller that returned the success reply has exactly one
\* counterpart, a caller under the same id, and that counterpart does not
\* return TimeoutError.
C17_RendezvousAgreement ==
    \A c \in Parties :
        ReturnedOk(c) =>
            /\ Cardinality(Counterparts(c)) = 1
            /\ \A q \in Counterparts(c) :
                  parties[q].id = parties[c].id /\ ~ReturnedTimeout(q)

\* C18: the entry a timed-out caller removes from the map, if it removes
\* one, holds the sender that this caller itself stored.
C18_CleanupRemovesOwnEntry ==
    \A c \in Parties : parties[c].removed \in {Nobody, c}

\* every call that started has returned
AllReturned == \A c \in Parties : parties[c].pc \in {"idle", "done"}

\* C19: an entry of the map under an id holds the sender of a caller that
\* called under that id, stored its sender and has not returned; when every
\* started call has returned the map is empty.
C19_MapInvariant ==
    /\ \A i \in Ids :
          state[i] # Nobody =>
              /\ parties[state[i]].id = i
              /\ parties[state[i]].inserted
              /\ ~Returned(state[i])
    /\ AllReturned => state = EmptyMap

\* a caller stored its sender, timed out and removed it, every started call
\* has returned, and the map is empty
C19_Witness ==
    /\ AllReturned
    /\ state = EmptyMap
    /\ \E c \in Parties :
          parties[c].inserted /\ ReturnedTimeout(c) /\ parties[c].removed = c

\* this step is a step of the call c
StepOf(c) == parties'[c].pc # parties[c].pc

\* C20: a step of a call under one id leaves the entries of every other id
\* as they are, and leaves every call under another id as it is: its
\* channel is neither signalled nor closed and it does not return.
C20_IsolationBetweenIds ==
    [][\A c \in Parties :
         StepOf(c) =>
            /\ \A i \in Ids \ {parties'[c].id} : state'[i] = state[i]
            /\ \A q \in Parties \ {c} :
                  parties[q].id # parties'[c].id => parties'[q] = parties[q]]_vars

\* a caller still waits under one id, its entry in the map, after a call
\* under the other id timed out and removed the entry of that id
C20_Witness ==
    \E a, b \in Parties :
        /\ parties[a].id # parties[b].id
        /\ WaitsInTime(a) /\ state[parties[a].id] = a
        /\ ReturnedTimeout(b) /\ parties[b].removed = b

(***************************************************************************)
(* ws_ping: one call, and the events the browser then delivers to the      *)
(* callbacks it registered.                                                *)
(***************************************************************************)
InitWs ==
    /\ sid = <<>> /\ pid = 0 /\ x = 0 /\ y = IDENTITY /\ base_point = GENERATOR
    /\ calls = [p \in Provers |-> NoCall]
    /\ verdict = NoVerdict
    /\ hashlog = <<>>
    /\ state = EmptyMap
    /\ parties = [c \in Parties |-> NotStarted]
    /\ ws = WsNotCalled

\* ws_ping(endpoint, message): the executor of the promise runs
WsPing(created, message) ==
    /\ ws.promise = "none"
    /\ ws' = executor(ws, created, message)
    /\ UNCHANGED <<zkvars, syncvars>>

\* the open event: the socket is open when onopen_callback runs
OnOpen ==
    /\ ws.socket = "connecting"
    /\ ws' = on_open([ws EXCEPT !.socket = "open", !.opened = TRUE])
    /\ UNCHANGED <<zkvars, syncvars>>

\* a message event with the frame m
OnMessage(m) ==
    /\ ws.socket = "open"
    /\ Len(ws.received) < MaxFrames
    /\ ws' = on_message([ws EXCEPT !.received = Append(@, m)], m)
    /\ UNCHANGED <<zkvars, syncvars>>

\* an error event: the connection failed and the socket is closed
OnError(msg) ==
    /\ ws.socket \in {"connecting", "open"}
    /\ ws' = on_error([ws EXCEPT !.socket = "closed"], msg)
    /\ UNCHANGED <<zkvars, syncvars>>

NextWs ==
    \/ \E created \in BOOLEAN, message \in WsMessages : WsPing(created, message)
    \/ OnOpen
    \/ \E m \in Frames : OnMessage(m)
    \/ \E msg \in WsErrors : OnError(msg)

SpecWs == InitWs /\ [][NextWs]_vars

\* C14: the message passed to ws_ping is not sent before the open event and
\* is sent exactly once, unchanged, at the open event; the promise is
\* fulfilled only when a message was received, the first message received
\* is a text message, and the value of the promise is its text.
C14_SendOnceAfterOpen ==
    /\ ~ws.opened => ws.wire = <<>>
    /\ ws.opened => ws.wire = <<ws.message>>
    /\ ws.promise = "fulfilled" =>
          /\ ws.received # <<>>
          /\ ws.received[1].text
          /\ ws.value = ws.received[1].data

\* the socket opened, the message was sent, a text message came back and
\* the promise is fulfilled with its text
C14_Witness ==
    /\ ws.opened /\ ws.wire = <<ws.message>>
    /\ ws.promise = "fulfilled"
    /\ Len(ws.received) = 1 /\ ws.received[1].text
    /\ ws.value = ws.received[1].data /\ ws.value # ws.message

(***************************************************************************)
(* Properties of the proof engine: what prove returns, and what the calls  *)
(* leave behind.                                                           *)
(***************************************************************************)
\* the commitment, challenge and response of the nonce r, as the protocol
\* defines them
Commitment(r) == (base_point * r) % Order
Challenge(r) == hash_points(sid, pid, <<base_point, y, Commitment(r)>>)
Response(r) == (r + Challenge(r) * x) % Order

\* C15: the proof that prove returns for the nonce r it drew is exactly
\* {T, S} with T = r*G, S = (r + c*x) mod the group order, and c the
\* challenge of (sid, pid, [G, y, T]), the points in that order.
C15_ProveComputation ==
    \A p \in Provers :
        calls[p].done =>
            calls[p].proof =
                [t |-> Commitment(calls[p].r), s |-> Response(calls[p].r)]

\* prove returned a proof with a nonzero nonce, secret and challenge, in a
\* state where the challenge of the points in another order differs
C15_Witness ==
    /\ calls["p1"].done
    /\ calls["p1"].r # 0 /\ x # 0 /\ Challenge(calls["p1"].r) # 0
    /\ calls["p1"].proof.t = Commitment(calls["p1"].r)
    /\ calls["p1"].proof.s = Response(calls["p1"].r)
    /\ hash_points(sid, pid, <<y, base_point, calls["p1"].proof.t>>)
          # Challenge(calls["p1"].r)

\* The engine called over and over: main's bindings (y = x*G on the
\* generator), prove called by either thread at any time, each call
\* replacing the thread's proof, and verify called on either proof under the
\* session id and any party id.  verdict records the last verify call.
InitEngine ==
    /\ sid \in Sids
    /\ pid \in Pids
    /\ x \in Scalars
    /\ base_point = GENERATOR
    /\ y = point_mul(base_point, x)
    /\ calls = [p \in Provers |-> NoCall]
    /\ verdict = NoVerdict
    /\ hashlog = <<>>
    /\ state = EmptyMap
    /\ parties = [c \in Parties |-> NotStarted]
    /\ ws = WsNotCalled

\* thread p calls DLogProof::prove(sid, pid, x, y, base_point)
CallProve(p) ==
    /\ \E r \in Scalars :
         calls' = [calls EXCEPT ![p] =
                     [done |-> TRUE, r |-> r,
                      proof |-> prove(sid, pid, x, y, base_point, r)]]
    /\ UNCHANGED <<sid, pid, x, y, base_point, verdict, hashlog, state, parties, ws>>

\* verify refusing a proof it has just verified: a verify with a memory
CallVerify_rejects_replay(p, vsid, vpid) ==
    /\ calls[p].done
    /\ verdict' = [called |-> TRUE, of |-> p, proof |-> calls[p].proof,
                   sid |-> vsid, pid |-> vpid,
                   result |-> /\ verify(calls[p].proof, vsid, vpid, y, base_point)
                              /\ ~(verdict.called /\ verdict.proof = calls[p].proof)]
    /\ UNCHANGED <<sid, pid, x, y, base_point, calls, hashlog, state, parties, ws>>

\* proof.verify(vsid, vpid, y, base_point) on the proof thread p holds;
\* verify takes &self and its other arguments by value or shared reference
CallVerify(p, vsid, vpid) ==
    /\ calls[p].done
    /\ verdict' = [called |-> TRUE, of |-> p, proof |-> calls[p].proof,
                   sid |-> vsid, pid |-> vpid,
                   result |-> verify(calls[p].proof, vsid, vpid, y, base_point)]
    /\ UNCHANGED <<sid, pid, x, y, base_point, calls, hashlog, state, parties, ws>>

NextEngine ==
    \/ \E p \in Provers : CallProve(p)
    \/ \E p \in Provers, vpid \in Pids : CallVerify(p, sid, vpid)

SpecEngine == InitEngine /\ [][NextEngine]_vars

\* the two verify calls recorded before and after a step have the same
\* proof, session id and party id
SameVerifyCall ==
    /\ verdict.called /\ verdict'.called
    /\ verdict'.proof = verdict.proof
    /\ verdict'.sid = verdict.sid /\ verdict'.pid = verdict.pid

====
